---- MODULE Spec2Model ----
(***************************************************************************)
(* Lagoon-Link (src/app.py): the external-data aggregation layer.          *)
(*   - tide query /api/tides with its station-keyed TTL cache,             *)
(*     resilient predictions / hilo fetches and stale fallback;            *)
(*   - marine conditions fetch with its coordinate-keyed TTL cache;        *)
(*   - nearest tide station resolver.                                      *)
(* Time is in seconds (time.time()).  Distances are in hundredths of a km. *)
(* Coordinates of the resolver are whole degrees; coordinates of the       *)
(* marine fetch are thousandths of a degree.                                *)
(***************************************************************************)
EXTENDS Integers, Sequences, FiniteSets, TLC

VARIABLES now, tides_cache, tide_last, marine_cache, marine_last, pr, hl, rs,
          nearby_last, th

vars == <<now, tides_cache, tide_last, marine_cache, marine_last, pr, hl, rs,
          nearby_last, th>>

\* ------------------------------------------------------------------ bounds
MaxNow == 900           \* the clock stops advancing past this value
MaxStations == 2        \* longest station list the directory returns
MaxDives == 12          \* rows of the Dive table the stores are drawn from
MaxAbsent == 2          \* a store holds all but, or no more than, this many of them

\* --------------------------------------------------------------- constants
TIDES_TTL == 10 * 60
MARINE_TTL == 15 * 60
Windows == <<36, 30, 24>>
TriesPerWindow == 2
HiloTries == 2
RetryCodes == {502, 503, 504}

NetError == 0           \* status of an outcome that is a network error / timeout
BadV == -999            \* a "v" field float() cannot parse
MissingKey == "<missing>"   \* a key absent from an upstream JSON object
NullVal == "<null>"         \* a JSON null
NoKm == -1                  \* distance_km = None

\* ------------------------------------------------------- upstream outcomes
\* One upstream HTTP exchange: a status (NetError: no response at all) and,
\* for a 200, the "predictions" array of the JSON body.
Outcome(status, body) == [status |-> status, body |-> body]

Statuses == {200, 502, 503, 504, NetError, 404, 500}

Ok(val) == [raised |-> FALSE, exc |-> "", code |-> 0, val |-> val]
Raise(exc, code) == [raised |-> TRUE, exc |-> exc, code |-> code, val |-> <<>>]

\* requests.get + raise_for_status
HttpGet(o) ==
  IF o.status = NetError THEN Raise("RequestException", 0)
  ELSE IF o.status >= 400 THEN Raise("HTTPError", o.status)
  ELSE Ok(o.body)

\* _fetch_hourly_predictions: points whose "v" does not parse are dropped
FetchHourlyPredictions(o) ==
  LET r == HttpGet(o) IN
  IF r.raised THEN r
  ELSE Ok(SelectSeq(r.val, LAMBDA p : p.v # BadV))

\* _fetch_highs_lows: items with an unparseable "v" or no "type" are dropped
FetchHighsLows(o) ==
  LET r == HttpGet(o) IN
  IF r.raised THEN r
  ELSE Ok(SelectSeq(r.val, LAMBDA it : it.v # BadV /\ it.type # MissingKey))

\* ------------------------------------------ _fetch_predictions_resilient
\* Position in the two nested loops, the windows requested so far, and the
\* way the function ended (done: returned or raised).
PredStart == [h |-> 1, t |-> 1, calls |-> <<>>, done |-> FALSE,
              raised |-> FALSE, exc |-> "", code |-> 0, val |-> <<>>]

\* a retry loop that gives each window a single try
PredContinue_OneTry(st, calls) ==
  IF st.h < Len(Windows)
    THEN [st EXCEPT !.h = st.h + 1, !.t = 1, !.calls = calls]
  ELSE [st EXCEPT !.calls = calls, !.done = TRUE, !.raised = TRUE,
                  !.exc = "RuntimeError"]

PredContinue(st, calls) ==
  IF st.t < TriesPerWindow
    THEN [st EXCEPT !.t = st.t + 1, !.calls = calls]
  ELSE IF st.h < Len(Windows)
    THEN [st EXCEPT !.h = st.h + 1, !.t = 1, !.calls = calls]
  ELSE [st EXCEPT !.calls = calls, !.done = TRUE, !.raised = TRUE,
                  !.exc = "RuntimeError"]

\* a retry test that takes every 5xx status for a transient one
PredRetryable_Any5xx(code) == code >= 500

\* the except clause for requests.HTTPError: retry or re-raise
PredRetryable(code) == code \in RetryCodes

\* one iteration of the inner loop, the upstream answering o
PredStep(st, o) ==
  LET calls == Append(st.calls, Windows[st.h])
      r == FetchHourlyPredictions(o)
  IN IF ~r.raised
       THEN [st EXCEPT !.calls = calls, !.done = TRUE, !.val = r.val]
     ELSE IF r.exc = "HTTPError"
       THEN IF PredRetryable(r.code)
              THEN PredContinue(st, calls)
              ELSE [st EXCEPT !.calls = calls, !.done = TRUE, !.raised = TRUE,
                              !.exc = "HTTPError", !.code = r.code]
     ELSE PredContinue(st, calls)

RECURSIVE PredRun(_, _, _)
PredRun(st, outs, i) ==
  IF st.done THEN st ELSE PredRun(PredStep(st, outs[i]), outs, i + 1)

\* the whole call, outs[i] being the upstream's answer to the i-th request
FetchPredictionsResilient(outs) == PredRun(PredStart, outs, 1)

\* ------------------------------------------------- _fetch_hilo_resilient
HiloStart == [t |-> 1, calls |-> 0, done |-> FALSE,
              raised |-> FALSE, exc |-> "", code |-> 0, val |-> <<>>]

HiloRetryable(code) == code \in RetryCodes

HiloContinue(st) ==
  IF st.t < HiloTries
    THEN [st EXCEPT !.t = st.t + 1, !.calls = st.calls + 1]
  ELSE [st EXCEPT !.calls = st.calls + 1, !.done = TRUE, !.val = <<>>]

HiloStep(st, o) ==
  LET r == FetchHighsLows(o)
  IN IF ~r.raised
       THEN [st EXCEPT !.calls = st.calls + 1, !.done = TRUE, !.val = r.val]
     ELSE IF r.exc = "HTTPError"
       THEN IF HiloRetryable(r.code)
              THEN HiloContinue(st)
              ELSE [st EXCEPT !.calls = st.calls + 1, !.done = TRUE,
                              !.raised = TRUE, !.exc = "HTTPError",
                              !.code = r.code]
     ELSE HiloContinue(st)

RECURSIVE HiloRun(_, _, _)
HiloRun(st, outs, i) ==
  IF st.done THEN st ELSE HiloRun(HiloStep(st, outs[i]), outs, i + 1)

FetchHiloResilient(outs) == HiloRun(HiloStart, outs, 1)

\* ------------------------------------------------- _tide_haversine_km
\* The great-circle distance of the source's formula (R = 6371.0088 km),
\* tabulated in hundredths of a km for the coordinates the model uses
\* (query lat, query lon, station lat, station lon, whole degrees).
\* the query coordinates and the station coordinates of the table
TidePlace(lat, lon) ==
  CASE lat = 41 /\ lon = -71 -> 1
    [] lat = 29 /\ lon = -95 -> 2
    [] lat = 37 /\ lon = -122 -> 3
    [] lat = 80 /\ lon = 0 -> 4
    [] lat = 95 /\ lon = 0 -> 5
    [] lat = 30 /\ lon = -90 -> 6
    [] lat = 30 /\ lon = -105 -> 7
    [] lat = 40 /\ lon = -105 -> 8
    [] lat = 30 /\ lon = -125 -> 9
    [] lat = 29 /\ lon = -110 -> 10
    [] lat = 36 /\ lon = -95 -> 11
    [] lat = 51 /\ lon = -122 -> 12

TideStationPlace(lat, lon) ==
  CASE lat = 41 /\ lon = -71 -> 1
    [] lat = 41 /\ lon = -72 -> 2
    [] lat = 42 /\ lon = -71 -> 3
    [] lat = 29 /\ lon = -80 -> 4
    [] lat = 55 /\ lon = -50 -> 5
    [] lat = 81 /\ lon = 15 -> 6
    [] lat = 30 /\ lon = -94 -> 7
    [] lat = 38 /\ lon = -122 -> 8

\* TideKm[q][s]: from query coordinate q to station coordinate s
TideKm ==
  << <<0, 8392, 11120, 156395, 218916, 544722, 240367, 432614>>,
     <<254809, 247184, 259518, 145782, 458659, 716125, 14741, 268394>>,
     <<436694, 428459, 434622, 398307, 562811, 664936, 269918, 11120>>,
     <<516702, 518605, 505876, 664359, 327542, 29584, 680398, 642015>>,
     <<564774, 563878, 553718, 689225, 426776, 154445, 664694, 550193>>,
     <<210291, 203056, 215984, 97384, 420380, 697099, 38517, 306394>>,
     <<328632, 320406, 330908, 241726, 511647, 720314, 105887, 179781>>,
     <<285874, 277582, 284316, 258428, 432226, 610499, 149432, 148345>>,
     <<495768, 487389, 495179, 432798, 638737, 745469, 297593, 93140>>,
     <<375770, 367474, 377511, 290961, 551658, 738325, 155119, 149409>>,
     <<215363, 207045, 217016, 160498, 399663, 639399, 67364, 239957>>,
     <<400589, 393608, 394507, 424817, 462239, 510682, 328762, 144554>> >>

TideHaversine(lat1, lon1, lat2, lon2) ==
  TideKm[TidePlace(lat1, lon1)][TideStationPlace(lat2, lon2)]

\* ------------------------------------------------ _nearest_tide_station
\* the radii tried from the widest box inwards
Deltas_Reordered == <<25, 10, 5>>
Deltas == <<5, 10, 25>>          \* 0.5, 1.0, 2.5 degrees, in tenths
BestInit == 1000000000           \* 1e12: above every distance on Earth
GuardDeg == 10
BadCoord == 9999                 \* a coordinate float() cannot parse, or absent

Abs(x) == IF x < 0 THEN -x ELSE x

\* str.lower() on the status values of the directory
Lower(s) == IF s = "Active" THEN "active" ELSE s

Newport == [id |-> "8452660", name |-> "Newport, RI", state |-> "RI",
            lat |-> 41, lon |-> -71, distance_km |-> NoKm]
Galveston == [id |-> "8771450", name |-> "Galveston Pier 21, TX", state |-> "TX",
              lat |-> 29, lon |-> -95, distance_km |-> NoKm]
SanFrancisco == [id |-> "9414290", name |-> "San Francisco, CA", state |-> "CA",
                 lat |-> 38, lon |-> -122, distance_km |-> NoKm]

Parses(s) == s.lat # BadCoord /\ s.lng # BadCoord

\* first loop (lines 398-405): nearest active station; acc.raised when
\* .lower() is applied to a null status
RECURSIVE BestActive(_, _, _, _, _)
BestActive(stations, i, lat, lon, acc) ==
  IF acc.raised \/ i > Len(stations) THEN acc
  ELSE LET s == stations[i] IN
    IF ~Parses(s) THEN BestActive(stations, i + 1, lat, lon, acc)
    ELSE LET d == TideHaversine(lat, lon, s.lat, s.lng)
             st == IF s.status = MissingKey THEN "" ELSE s.status
         IN IF st = NullVal
              THEN [acc EXCEPT !.raised = TRUE]
            ELSE IF Lower(st) = "active" /\ d < acc.best_d
              THEN BestActive(stations, i + 1, lat, lon,
                              [acc EXCEPT !.has = TRUE, !.best = s, !.best_d = d])
            ELSE BestActive(stations, i + 1, lat, lon, acc)

\* second loop (lines 406-414): nearest station of any status
RECURSIVE BestAny(_, _, _, _, _)
BestAny(stations, i, lat, lon, acc) ==
  IF i > Len(stations) THEN acc
  ELSE LET s == stations[i] IN
    IF ~Parses(s) THEN BestAny(stations, i + 1, lat, lon, acc)
    ELSE LET d == TideHaversine(lat, lon, s.lat, s.lng)
         IN IF d < acc.best_d
              THEN BestAny(stations, i + 1, lat, lon,
                           [acc EXCEPT !.has = TRUE, !.best = s, !.best_d = d])
            ELSE BestAny(stations, i + 1, lat, lon, acc)

NoStation == [id |-> MissingKey, name |-> MissingKey, state |-> MissingKey,
              lat |-> BadCoord, lng |-> BadCoord, status |-> MissingKey]
NoBest == [has |-> FALSE, best |-> NoStation, best_d |-> BestInit, raised |-> FALSE]

Candidate(stations, lat, lon) ==
  LET a == BestActive(stations, 1, lat, lon, NoBest)
  IN IF a.raised \/ a.has THEN a ELSE BestAny(stations, 1, lat, lon, a)

\* a sanity guard that rejects a candidate far away in one axis only
Rejected_EitherAxis(c, lat, lon, max_km) ==
  \/ ~c.has
  \/ c.best_d > max_km
  \/ (Abs(c.best.lat - lat) > GuardDeg \/ Abs(c.best.lng - lon) > GuardDeg)

\* lines 416-422: the candidate of one radius is dropped
Rejected(c, lat, lon, max_km) ==
  \/ ~c.has
  \/ c.best_d > max_km
  \/ (Abs(c.best.lat - lat) > GuardDeg /\ Abs(c.best.lng - lon) > GuardDeg)

\* lines 424-431: the returned dict; str(best["id"]) raises on a missing id
StationOf(c) ==
  [id |-> IF c.best.id = NullVal THEN "None" ELSE c.best.id,
   name |-> IF c.best.name = MissingKey THEN "NOAA Station" ELSE c.best.name,
   state |-> IF c.best.state = MissingKey THEN "" ELSE c.best.state,
   lat |-> c.best.lat, lon |-> c.best.lng, distance_km |-> c.best_d]

\* one pass of the loop over the radii: the directory answers resp
\* (resp.err: the request or its parsing failed)
SearchRadius(lat, lon, max_km, resp) ==
  LET stations == IF resp.err THEN <<>> ELSE resp.stations
      c == Candidate(stations, lat, lon)
  IN IF stations = <<>>
       THEN [kind |-> "continue", cand |-> NoBest, station |-> Newport]
     ELSE IF c.raised
       THEN [kind |-> "raise", cand |-> c, station |-> Newport]
     ELSE IF Rejected(c, lat, lon, max_km)
       THEN [kind |-> "continue", cand |-> c, station |-> Newport]
     ELSE IF c.best.id = MissingKey
       THEN [kind |-> "raise", cand |-> c, station |-> Newport]
     ELSE [kind |-> "return", cand |-> c, station |-> StationOf(c)]

\* regional defaults whose West Coast band includes its eastern edge
RegionalDefault_WestInclusive(lat, lon) ==
  IF -90 <= lon /\ lon <= -60 /\ 25 <= lat /\ lat <= 50 THEN Newport
  ELSE IF -105 <= lon /\ lon < -90 /\ 25 <= lat /\ lat <= 35 THEN Galveston
  ELSE IF -125 <= lon /\ lon <= -105 /\ 30 <= lat /\ lat <= 50 THEN SanFrancisco
  ELSE Newport

\* lines 433-446: regional defaults
RegionalDefault(lat, lon) ==
  IF -90 <= lon /\ lon <= -60 /\ 25 <= lat /\ lat <= 50 THEN Newport
  ELSE IF -105 <= lon /\ lon < -90 /\ 25 <= lat /\ lat <= 35 THEN Galveston
  ELSE IF -125 <= lon /\ lon < -105 /\ 30 <= lat /\ lat <= 50 THEN SanFrancisco
  ELSE Newport

\* the whole call; dirs[i] is the directory's answer to the i-th query
RECURSIVE ResolveFrom(_, _, _, _, _)
ResolveFrom(i, lat, lon, max_km, dirs) ==
  IF i > Len(Deltas)
    THEN [raised |-> FALSE, station |-> RegionalDefault(lat, lon), queries |-> i - 1]
  ELSE LET r == SearchRadius(lat, lon, max_km, dirs[i]) IN
    IF r.kind = "raise"
      THEN [raised |-> TRUE, station |-> Newport, queries |-> i]
    ELSE IF r.kind = "return"
      THEN [raised |-> FALSE, station |-> r.station, queries |-> i]
    ELSE ResolveFrom(i + 1, lat, lon, max_km, dirs)

NearestTideStation(lat, lon, max_km, dirs) ==
  IF lat = BadCoord \/ lon = BadCoord
    THEN [raised |-> FALSE, station |-> Newport, queries |-> 0]
  ELSE ResolveFrom(1, lat, lon, max_km, dirs)

\* --------------------------------------------------- _station_meta_by_id
\* The lookup never raises: on any failure it synthesises a placeholder.
MissingKm == -2                  \* the dict has no "distance_km" key
StationMetaById(station_id, ok) ==
  IF ok
    THEN [id |-> station_id, name |-> "Boston, MA", state |-> "MA",
          lat |-> 42, lon |-> -71, distance_km |-> MissingKm]
    ELSE [id |-> station_id, name |-> "NOAA Station", state |-> "",
          lat |-> BadCoord, lon |-> BadCoord, distance_km |-> MissingKm]

\* ------------------------------------------------------------- api_tides
\* A cache entry is the payload of line 576 without its "meta" field, which
\* the handler writes and never reads (line 568 replaces it on a hit).
NoEntry == [ts |-> -1, series |-> <<>>, hilo |-> <<>>, stale |-> FALSE]

\* a fetch that was not started
NoPred == PredStart
NoHilo == HiloStart

\* a freshness test that still accepts an entry aged exactly the TTL
TideFresh_Inclusive(cached, t) == t - cached.ts <= TIDES_TTL

\* line 566: the cached entry is served without a live fetch
TideFresh(cached, t) == t - cached.ts < TIDES_TTL

TideCrash(req) ==
  [req EXCEPT !.kind = "crash", !.http = 500]

\* lines 567-570: the response built from a fresh entry
FreshResponse(base, cached) ==
  [base EXCEPT !.kind = "ok", !.http = 200, !.path = "fresh",
               !.series = cached.series, !.hilo = cached.hilo,
               !.point_count = Len(cached.series), !.stale = cached.stale]

\* a payload that records the staleness of the entry it replaces
TidePayload_Sticky(t, series, hilo) ==
  [ts |-> t, series |-> series, hilo |-> hilo, stale |-> t > 0]

\* line 576: the payload stored after a live fetch
TidePayload(t, series, hilo) ==
  [ts |-> t, series |-> series, hilo |-> hilo, stale |-> FALSE]

\* lines 578-579: the response of a live fetch
LiveResponse(live, series, hilo) ==
  [live EXCEPT !.kind = "ok", !.http = 200, !.path = "live",
               !.series = series, !.hilo = hilo,
               !.point_count = Len(series), !.stale = FALSE]

\* a stale fallback that forgets the staleness flag
StaleResponse_NoFlag(live, cached) ==
  [live EXCEPT !.kind = "ok", !.http = 200, !.path = "stale",
               !.series = cached.series, !.hilo = cached.hilo,
               !.point_count = Len(cached.series), !.stale = FALSE]

\* lines 581-584: the expired entry served after a failed live fetch
StaleResponse(live, cached) ==
  [live EXCEPT !.kind = "ok", !.http = 200, !.path = "stale",
               !.series = cached.series, !.hilo = cached.hilo,
               !.point_count = Len(cached.series), !.stale = TRUE]

\* line 585
ErrorResponse(live) ==
  [live EXCEPT !.kind = "unavailable", !.http = 502, !.path = "error"]

\* line 577: _TIDES_CACHE[station] = payload, the entry replaced as a whole
TideStore(cache, station, payload) == (station :> payload) @@ cache

\* a failure path that renews the timestamp of the entry it serves
TideOnError_Touch(cache, station, t) ==
  IF station \in DOMAIN cache
    THEN [cache EXCEPT ![station].ts = t]
    ELSE cache

\* lines 580-585: the except branch reads the cache and writes nothing
TideOnError(cache, station, t) == cache

\* lines 564-585, the station being chosen; the result is the record of the
\* request (its response, and the fetches it made) and the cache after it
TideServe(cache, t, station, meta, req, predOuts, hiloOuts) ==
  LET had == station \in DOMAIN cache
      cached == IF had THEN cache[station] ELSE NoEntry
      base == [req EXCEPT !.station = station, !.meta = meta]
  IN IF had /\ TideFresh(cached, t)
       THEN [cache |-> cache, last |-> FreshResponse(base, cached)]
     ELSE LET p == FetchPredictionsResilient(predOuts)
              h == IF p.raised THEN NoHilo ELSE FetchHiloResilient(hiloOuts)
              live == [base EXCEPT !.pred = p, !.hl = h]
          IN IF ~p.raised /\ ~h.raised
               THEN [cache |-> TideStore(cache, station, TidePayload(t, p.val, h.val)),
                     last |-> LiveResponse(live, p.val, h.val)]
             ELSE IF had
               THEN [cache |-> TideOnError(cache, station, t),
                     last |-> StaleResponse(live, cached)]
             ELSE [cache |-> TideOnError(cache, station, t),
                   last |-> ErrorResponse(live)]

NoMeta == [id |-> "", name |-> "", state |-> "", lat |-> BadCoord,
           lon |-> BadCoord, distance_km |-> MissingKm]

\* the record of a request before it did anything
TideReq(stationArg, lat, lon, max_km) ==
  [kind |-> "none", http |-> 0, path |-> "", arg |-> stationArg,
   lat |-> lat, lon |-> lon, max_km |-> max_km,
   station |-> "", meta |-> NoMeta,
   dir_queries |-> 0, pred |-> NoPred, hl |-> NoHilo,
   series |-> <<>>, hilo |-> <<>>, point_count |-> 0, stale |-> FALSE]

\* lines 549-585: the whole handler
ApiTidesResult(cache, t, stationArg, lat, lon, max_km, metaOk, dirs, predOuts, hiloOuts) ==
  LET req == TideReq(stationArg, lat, lon, max_km) IN
  IF stationArg = ""
    THEN IF lat # BadCoord /\ lon # BadCoord
      THEN LET r == NearestTideStation(lat, lon, max_km, dirs)
               q == [req EXCEPT !.dir_queries = r.queries]
           IN IF r.raised
                THEN [cache |-> cache, last |-> TideCrash(q)]
                ELSE TideServe(cache, t, r.station.id, r.station, q,
                               predOuts, hiloOuts)
      ELSE TideServe(cache, t, Newport.id,
                     [Newport EXCEPT !.distance_km = MissingKm], req,
                     predOuts, hiloOuts)
    ELSE TideServe(cache, t, stationArg, StationMetaById(stationArg, metaOk),
                   req, predOuts, hiloOuts)

\* --------------------------------------------------------- _fetch_marine
\* round(x, 2) of a coordinate given in thousandths of a degree, as
\* hundredths (round-half-even; the model's coordinates have no exact half)
Round2(x) ==
  LET q == x \div 10
      r == x % 10
  IN IF r < 5 THEN q
     ELSE IF r > 5 THEN q + 1
     ELSE IF q % 2 = 0 THEN q ELSE q + 1

MarineKey(lat, lon) == <<Round2(lat), Round2(lon)>>

NoNum == -9999                   \* None: the hourly array is absent or empty

\* last(name): the last sample of an hourly array, None when there is none
LastOf(arr) == IF Len(arr) = 0 THEN NoNum ELSE arr[Len(arr)]

\* round(ms * 0.539957, 1), in tenths of a knot ((None or 0) is 0)
WindKt(ms) ==
  IF ms = NoNum THEN 0 ELSE (ms * 539957 + 50000) \div 100000

\* lines 157-164: the snapshot built from the "hourly" object
MarineData(hourly) ==
  [wind_speed_kt |-> WindKt(LastOf(hourly.wind_speed_10m)),
   wind_dir |-> LastOf(hourly.wind_direction_10m),
   wave_height_m |-> LastOf(hourly.wave_height),
   wave_dir |-> LastOf(hourly.wave_direction),
   wave_period_s |-> LastOf(hourly.wave_period),
   sst_c |-> LastOf(hourly.sea_surface_temperature)]

NoData == [wind_speed_kt |-> NoNum, wind_dir |-> NoNum, wave_height_m |-> NoNum,
           wave_dir |-> NoNum, wave_period_s |-> NoNum, sst_c |-> NoNum]

\* what the marine upstream can do with one request
MarineFailures == {"request_error", "http_error", "parse_error", "timeout"}

\* line 133: the cached snapshot is returned without a request
MarineFresh(entry, t) == t - entry.ts < MARINE_TTL

\* an except clause that caches the failure
MarineOnError_Poison(cache, key, t) ==
  [isNull |-> TRUE, data |-> NoData,
   cache |-> (key :> [ts |-> t, data |-> NoData]) @@ cache]

\* an except clause that falls back to the expired snapshot
MarineOnError_Stale(cache, key, t) ==
  IF key \in DOMAIN cache
    THEN [isNull |-> FALSE, data |-> cache[key].data, cache |-> cache]
    ELSE [isNull |-> TRUE, data |-> NoData, cache |-> cache]

\* the except clause (lines 167-168): None, the cache left alone
MarineOnError(cache, key, t) ==
  [isNull |-> TRUE, data |-> NoData, cache |-> cache]

\* a write that updates the snapshot of an existing entry in place and
\* leaves its timestamp
MarineStore_InPlace(cache, key, entry) ==
  IF key \in DOMAIN cache
    THEN [cache EXCEPT ![key].data = entry.data]
    ELSE (key :> entry) @@ cache

\* line 165: _marine_cache[key] = {...}, the entry replaced as a whole
MarineStore(cache, key, entry) == (key :> entry) @@ cache

\* lines 130-168: up is [kind, hourly]; the result is the returned value
\* (isNull: None), whether the upstream was called, and the cache after it
FetchMarine(cache, t, lat, lon, up) ==
  LET key == MarineKey(lat, lon) IN
  IF key \in DOMAIN cache /\ MarineFresh(cache[key], t)
    THEN [isNull |-> FALSE, data |-> cache[key].data, called |-> FALSE,
          hit |-> TRUE, cache |-> cache]
  ELSE IF up.kind = "ok"
    THEN LET data == MarineData(up.hourly)
         IN [isNull |-> FALSE, data |-> data, called |-> TRUE, hit |-> FALSE,
             cache |-> MarineStore(cache, key, [ts |-> t, data |-> data])]
  ELSE LET e == MarineOnError(cache, key, t)
       IN [isNull |-> e.isNull, data |-> e.data, called |-> TRUE,
           hit |-> FALSE, cache |-> e.cache]

\* ------------------------------------------------------- api_nearby_spots
\* lines 121-127: great-circle distance (R = 6371.0) between a query
\* coordinate and a dive, both in thousandths of a degree, in metres
NearbyPlace(lat, lon) ==
  CASE lat = 41000 /\ lon = -71000 -> 1
    [] lat = 41004 /\ lon = -71001 -> 2

DivePlace(lat, lon) ==
  CASE lat = 41009 /\ lon = -71000 -> 1
    [] lat = 41000 /\ lon = -71000 -> 2
    [] lat = 41001 /\ lon = -71000 -> 3
    [] lat = 41007 /\ lon = -71000 -> 4
    [] lat = 41000 /\ lon = -71001 -> 5
    [] lat = 41002 /\ lon = -71000 -> 6
    [] lat = 41004 /\ lon = -71000 -> 7
    [] lat = 42003 /\ lon = -71000 -> 8
    [] lat = 41003 /\ lon = -71000 -> 9
    [] lat = 41008 /\ lon = -71000 -> 10
    [] lat = 41006 /\ lon = -71000 -> 11
    [] lat = 41012 /\ lon = -71000 -> 12
    [] lat = 41011 /\ lon = -71000 -> 13

\* NearbyM[q][d]: from query coordinate q to dive coordinate d
NearbyM ==
  << <<1001, 0, 111, 778, 84, 222, 445, 111529, 334, 890, 667, 1334, 1223>>,
     <<562, 453, 344, 344, 445, 238, 84, 111084, 139, 453, 238, 894, 783>> >>

HaversineKm(lat1, lon1, lat2, lon2) ==
  NearbyM[NearbyPlace(lat1, lon1)][DivePlace(lat2, lon2)]

NearbyCap == 8

\* round(dist, 1) of a distance in metres, in tenths of a km (round-half-even;
\* no distance of the table ends in an exact half)
Round1(m) ==
  LET q == m \div 100
      r == m % 100
  IN IF r < 50 THEN q
     ELSE IF r > 50 THEN q + 1
     ELSE IF q % 2 = 0 THEN q ELSE q + 1

\* line 331: Dive.query.filter_by(is_public=True)
Public(store) ==
  LET IsPublic(d) == d.is_public IN SelectSeq(store, IsPublic)

\* a query for the caller's dives that forgets its filter
Mine_AnyOwner(store, caller) == store

\* line 334: Dive.query.filter_by(user_id=current_user.id); caller 0 is the
\* anonymous user, who is not authenticated
Mine(store, caller) ==
  LET IsMine(d) == d.user_id = caller IN SelectSeq(store, IsMine)

\* lines 331-336: the public dives, then the caller's dives not among them
Spots(store, caller) ==
  LET pub == Public(store)
      ids == { pub[i].id : i \in 1..Len(pub) }
      NotThere(d) == d.id \notin ids
  IN IF caller # 0
       THEN pub \o SelectSeq(Mine(store, caller), NotThere)
       ELSE pub

\* lines 338-342: the dives the loop does not skip (first occurrence of an id)
RECURSIVE Unseen(_, _, _)
Unseen(spots, i, seen) ==
  IF i > Len(spots) THEN <<>>
  ELSE IF spots[i].id \in seen THEN Unseen(spots, i + 1, seen)
  ELSE <<spots[i]>> \o Unseen(spots, i + 1, seen \cup {spots[i].id})

\* a candidate list that is the plain concatenation of the two queries
Candidates_Concat(store, caller) ==
  IF caller # 0 THEN Public(store) \o Mine(store, caller) ELSE Public(store)

\* lines 331-342: the dives that reach the distance test, in loop order
Candidates(store, caller) == Unseen(Spots(store, caller), 1, {})

\* lines 343-354: the rows of the dives within the radius, each with the
\* result of _fetch_marine; upOf[key] is what the marine upstream answers
\* for the cell key; acc is [rows, cache, calls]
RECURSIVE NearbyRows(_, _, _, _, _, _, _, _)
NearbyRows(cands, i, lat, lon, radius_km, t, upOf, acc) ==
  IF i > Len(cands) THEN acc
  ELSE LET d == cands[i]
           dist == HaversineKm(lat, lon, d.lat, d.lon)
       IN IF dist <= radius_km
            THEN LET m == FetchMarine(acc.cache, t, d.lat, d.lon,
                                      upOf[MarineKey(d.lat, d.lon)])
                     row == [id |-> d.id, lat |-> d.lat, lon |-> d.lon,
                             distance_km |-> Round1(dist),
                             is_public |-> d.is_public,
                             live_null |-> m.isNull, live |-> m.data]
                 IN NearbyRows(cands, i + 1, lat, lon, radius_km, t, upOf,
                      [rows |-> Append(acc.rows, row), cache |-> m.cache,
                       calls |-> acc.calls + (IF m.called THEN 1 ELSE 0)])
          ELSE NearbyRows(cands, i + 1, lat, lon, radius_km, t, upOf, acc)

\* insertion of a row behind the rows whose key is not greater
RECURSIVE InsertRow(_, _)
InsertRow(sorted, row) ==
  IF sorted = <<>> THEN <<row>>
  ELSE IF sorted[Len(sorted)].distance_km <= row.distance_km
    THEN Append(sorted, row)
  ELSE Append(InsertRow(SubSeq(sorted, 1, Len(sorted) - 1), row),
              sorted[Len(sorted)])

\* line 356: rows.sort(key=distance_km), a stable sort
RECURSIVE SortRows(_, _, _)
SortRows(rows, i, sorted) ==
  IF i > Len(rows) THEN sorted
  ELSE SortRows(rows, i + 1, InsertRow(sorted, rows[i]))

\* a response that returns every row
TopRows_NoCap(rows) == rows

\* line 357: rows[:8]
TopRows(rows) ==
  SubSeq(rows, 1, IF Len(rows) < NearbyCap THEN Len(rows) ELSE NearbyCap)

\* the record of a nearby-spots request before it did anything
NearbyReq(latArg, lonArg, radius_km, store, caller) ==
  [kind |-> "none", http |-> 0, lat |-> latArg, lon |-> lonArg,
   radius_km |-> radius_km, store |-> store, caller |-> caller,
   rows |-> <<>>, calls |-> 0]

\* a handler that answers a missing coordinate with an empty list
NearbyBadRequest_EmptyList(req, cache) ==
  [cache |-> cache, last |-> [req EXCEPT !.kind = "ok", !.http = 200]]

\* lines 327-328: 400 "lat/lon required"
NearbyBadRequest(req, cache) ==
  [cache |-> cache, last |-> [req EXCEPT !.kind = "bad_request", !.http = 400]]

\* lines 321-357: the whole handler; a coordinate or radius that float()
\* cannot parse is BadCoord (the radius is parsed outside the try, line 330)
ApiNearbySpotsResult(cache, t, latArg, lonArg, radius_km, store, caller, upOf) ==
  LET req == NearbyReq(latArg, lonArg, radius_km, store, caller) IN
  IF latArg = BadCoord \/ lonArg = BadCoord
    THEN NearbyBadRequest(req, cache)
  ELSE IF radius_km = BadCoord
    THEN [cache |-> cache, last |-> [req EXCEPT !.kind = "crash", !.http = 500]]
  ELSE LET acc == NearbyRows(Candidates(store, caller), 1, latArg, lonArg,
                             radius_km, t, upOf,
                             [rows |-> <<>>, cache |-> cache, calls |-> 0])
       IN [cache |-> acc.cache,
           last |-> [req EXCEPT !.kind = "ok", !.http = 200,
                                !.rows = TopRows(SortRows(acc.rows, 1, <<>>)),
                                !.calls = acc.calls]]

\* ------------------------------------------------------ upstream answers
P(t, v) == [t |-> t, v |-> v]
E(t, v, type) == [t |-> t, v |-> v, type |-> type]

SeriesA == <<P(1, 3)>>
SeriesB == <<P(1, 4), P(2, BadV), P(3, 6)>>
HiloBody == <<E(1, 5, "H"), E(2, BadV, "L"), E(3, 1, MissingKey), E(4, 0, "L")>>

Fail(status) == Outcome(status, <<>>)

\* answers of the predictions service to the (up to) six requests of one query
PredScripts ==
  { [i \in 1..6 |-> Outcome(200, SeriesA)],
    [i \in 1..6 |-> Outcome(200, SeriesB)],
    [i \in 1..6 |-> IF i = 1 THEN Fail(503)
                    ELSE IF i = 2 THEN Fail(NetError)
                    ELSE Outcome(200, SeriesA)],
    [i \in 1..6 |-> IF i % 2 = 1 THEN Fail(502) ELSE Fail(504)],
    [i \in 1..6 |-> IF i = 1 THEN Fail(NetError) ELSE Fail(404)] }

\* answers of the predictions service to the (up to) two hilo requests
HiloScripts ==
  { [i \in 1..2 |-> IF i = 1 THEN Fail(503) ELSE Outcome(200, HiloBody)],
    [i \in 1..2 |-> IF i = 1 THEN Fail(504) ELSE Fail(NetError)],
    [i \in 1..2 |-> Fail(404)] }

\* stations of the directory
St(id, name, lat, lng, status) ==
  [id |-> id, name |-> name, state |-> MissingKey, lat |-> lat, lng |-> lng,
   status |-> status]

sNewLondon == St("8461490", "New London", 41, -72, "active")
sBoston == St("8443970", "Boston", 42, -71, "Active")
sClosed == St("8447930", MissingKey, 41, -71, "inactive")
sFarBoth == St("9990001", "Far", 55, -50, "active")
sOneAxis == St("9990002", "South", 29, -80, "active")
sPolar == St("9990003", "Polar", 81, 15, "active")
sGulf == St("8771341", "Galveston Bay", 30, -94, MissingKey)
sWest == St("9414750", "Alameda", 38, -122, "active")
sNoId == St(MissingKey, "No id", 41, -72, "active")
sNullId == St(NullVal, "Null id", 42, -71, "active")
sNullStatus == St("8440000", "Null status", 42, -71, NullVal)
sBadLat == St("8450000", "Bad lat", BadCoord, -71, "active")

DirErr == [err |-> TRUE, stations |-> <<>>]
DirOk(stations) == [err |-> FALSE, stations |-> stations]

\* answers of the station directory to the three queries of one tide query
TideDirs ==
  { <<DirErr, DirErr, DirErr>>,
    <<DirOk(<<>>), DirOk(<<sClosed, sBoston>>), DirErr>>,
    <<DirErr, DirOk(<<sNoId>>), DirErr>> }

DefaultMaxKm == 25000            \* max_km = 250.0
NoDirs == <<DirErr, DirErr, DirErr>>

\* the tide queries: an explicit station (its detail lookup working or not),
\* no station and no usable coordinate, a coordinate to resolve
TideQuery(arg, lat, lon, metaOk, dirs) ==
  [arg |-> arg, lat |-> lat, lon |-> lon, metaOk |-> metaOk, dirs |-> dirs]
TideQueries ==
  { TideQuery("8443970", BadCoord, BadCoord, TRUE, NoDirs),
    TideQuery("8443970", 41, -71, FALSE, NoDirs),
    TideQuery("", BadCoord, -71, TRUE, NoDirs) }
  \cup { TideQuery("", 41, -71, TRUE, dirs) : dirs \in TideDirs }

TickSteps == {300, 599}

\* --------------------------------------------------------- the Dive table
Dive(id, user_id, is_public, lat, lon) ==
  [id |-> id, user_id |-> user_id, is_public |-> is_public,
   lat |-> lat, lon |-> lon]

\* dives of users 1 and 2 around (41.000, -71.000), in id order; dive 8 is
\* 111 km away, dives 3 and 6 are private
DiveTable ==
  << Dive(1, 1, TRUE, 41009, -71000), Dive(2, 2, TRUE, 41000, -71000),
     Dive(3, 1, FALSE, 41001, -71000), Dive(4, 2, TRUE, 41007, -71000),
     Dive(5, 1, TRUE, 41000, -71001), Dive(6, 2, FALSE, 41002, -71000),
     Dive(7, 1, TRUE, 41004, -71000), Dive(8, 2, TRUE, 42003, -71000),
     Dive(9, 1, TRUE, 41003, -71000), Dive(10, 2, TRUE, 41008, -71000),
     Dive(11, 1, TRUE, 41006, -71000), Dive(12, 2, TRUE, 41012, -71000),
     Dive(13, 1, TRUE, 41011, -71000) >>

DivePool == SubSeq(DiveTable, 1, MaxDives)

\* the table holding the dives whose id is in S
Pick(S) == LET In(d) == d.id \in S IN SelectSeq(DivePool, In)

Stores ==
  { Pick(S) : S \in { T \in SUBSET (1..MaxDives) :
                        \/ Cardinality(T) <= MaxAbsent
                        \/ MaxDives - Cardinality(T) <= MaxAbsent } }

\* current_user: 0 is the anonymous user
Callers == {0, 1, 2}

\* lat, lon and radius_km (in metres) of a request; the default radius is
\* 100 km
NearbyArgs ==
  { <<41000, -71000, 100000>>, <<41000, -71000, 300>>, <<41000, -71000, 0>>,
    <<41004, -71001, 100000>>, <<41004, -71001, 300>>,
    <<BadCoord, -71000, 100000>>, <<41000, BadCoord, 100000>>,
    <<41000, -71000, BadCoord>> }

NearbyCells ==
  { MarineKey(DiveTable[i].lat, DiveTable[i].lon) : i \in 1..Len(DiveTable) }


\* ------------------------------------------------------------------ state
EmptyCache == [k \in {} |-> NoEntry]
EmptyMarine == [k \in {} |-> [ts |-> 0, data |-> NoData]]
NoMarineCall ==
  [kind |-> "none", lat |-> 0, lon |-> 0, up |-> "",
   isNull |-> TRUE, data |-> NoData, called |-> FALSE, hit |-> FALSE]
PredIdle == [active |-> FALSE, st |-> PredStart, outs |-> <<>>]
HiloIdle == [active |-> FALSE, st |-> HiloStart, outs |-> <<>>]
ResIdle ==
  [active |-> FALSE, lat |-> BadCoord, lon |-> BadCoord, max_km |-> 0, i |-> 1,
   queries |-> <<>>, done |-> FALSE, raised |-> FALSE, station |-> Newport,
   kind |-> "", cand |-> NoBest, passed |-> 0, got |-> "", stations |-> <<>>]

NoTideCall == TideReq("", BadCoord, BadCoord, 0)
NoNearbyCall == NearbyReq(BadCoord, BadCoord, 0, <<>>, 0)

\* request threads of the server; th[w] is the position of thread w in the
\* handler it runs and the locals it holds
Workers == {1, 2}
NoRet == [path |-> "", isNull |-> TRUE, value |-> <<>>, stale |-> FALSE]
ThreadIdle ==
  [pc |-> "idle", kind |-> "", now |-> 0, had |-> FALSE, cached |-> NoEntry,
   data |-> <<>>, called |-> FALSE, ret |-> NoRet]
NoThreads == [w \in Workers |-> ThreadIdle]

Init ==
  /\ now = 0
  /\ tides_cache = EmptyCache
  /\ tide_last = NoTideCall
  /\ marine_cache = EmptyMarine
  /\ marine_last = NoMarineCall
  /\ pr = PredIdle
  /\ hl = HiloIdle
  /\ rs = ResIdle
  /\ nearby_last = NoNearbyCall
  /\ th = NoThreads

\* time.time() moves on between two requests; tide_last and marine_last
\* describe the request just handled, when it was a tide query or a marine
\* fetch at the current time
Tick ==
  /\ \E d \in TickSteps : now + d <= MaxNow /\ now' = now + d
  /\ tide_last' = NoTideCall
  /\ marine_last' = NoMarineCall
  /\ nearby_last' = NoNearbyCall
  /\ UNCHANGED <<tides_cache, marine_cache, pr, hl, rs, th>>

\* GET /api/tides
ApiTidesOf(queries, preds, hilos) ==
  \E q \in queries, predOuts \in preds, hiloOuts \in hilos :
    LET r == ApiTidesResult(tides_cache, now, q.arg, q.lat, q.lon, DefaultMaxKm,
                            q.metaOk, q.dirs, predOuts, hiloOuts)
    IN /\ tides_cache' = r.cache
       /\ tide_last' = r.last
       /\ marine_last' = NoMarineCall
       /\ nearby_last' = NoNearbyCall
       /\ UNCHANGED <<now, marine_cache, pr, hl, rs, th>>

ApiTides == ApiTidesOf(TideQueries, PredScripts, HiloScripts)

Next == Tick \/ ApiTides

Spec == Init /\ [][Next]_vars

\* ----------------------------------------------------------- marine fetch
Hourly(wind, wdir, wh, wvd, wp, sst) ==
  [wind_speed_10m |-> wind, wind_direction_10m |-> wdir, wave_height |-> wh,
   wave_direction |-> wvd, wave_period |-> wp, sea_surface_temperature |-> sst]

HourlyBodies ==
  { Hourly(<<3, 10>>, <<180, 270>>, <<1, 2>>, <<90>>, <<7, 8>>, <<14, 15>>),
    Hourly(<<>>, <<>>, <<4>>, <<>>, <<>>, <<>>) }

MarineUps ==
  { [kind |-> "ok", hourly |-> b] : b \in HourlyBodies }
  \cup { [kind |-> k, hourly |-> Hourly(<<>>, <<>>, <<>>, <<>>, <<>>, <<>>)] :
           k \in MarineFailures }

\* two coordinates of one 0.01-degree cell and one of another cell
MarineCoords == {<<41504, -71326>>, <<41496, -71334>>, <<29310, -94790>>}

\* one call of _fetch_marine (made for a dive by GET /api/nearby_spots)
MarineRequestOf(coords, ups) ==
  \E c \in coords, up \in ups :
    LET r == FetchMarine(marine_cache, now, c[1], c[2], up)
    IN /\ marine_cache' = r.cache
       /\ marine_last' = [kind |-> "call", lat |-> c[1], lon |-> c[2],
                          up |-> up.kind, isNull |-> r.isNull, data |-> r.data,
                          called |-> r.called, hit |-> r.hit]
       /\ tide_last' = NoTideCall
       /\ nearby_last' = NoNearbyCall
       /\ UNCHANGED <<now, tides_cache, pr, hl, rs, th>>

MarineRequest == MarineRequestOf(MarineCoords, MarineUps)

NextMarine == Tick \/ MarineRequest

SpecMarine == Init /\ [][NextMarine]_vars

\* ------------------------------------------- both caches under one clock
\* Tide queries for one station and marine fetches in one 0.01-degree cell.
CacheQueries == { TideQuery("8443970", BadCoord, BadCoord, TRUE, NoDirs) }
CacheCoords == {<<41504, -71326>>, <<41496, -71334>>}

ApiTidesOne == ApiTidesOf(CacheQueries, PredScripts, HiloScripts)
MarineRequestOne == MarineRequestOf(CacheCoords, MarineUps)

NextCaches == Tick \/ ApiTidesOne \/ MarineRequestOne

SpecCaches == Init /\ [][NextCaches]_vars

\* ------------------------------ the live fetch of a tide query, call by call
\* Lines 574-575 with one step per upstream request: pr and hl hold the
\* position of _fetch_predictions_resilient and of _fetch_hilo_resilient and
\* the answers they received.
RetryOutcomes ==
  { Fail(c) : c \in Statuses \ {200} }
  \cup { Outcome(200, SeriesA), Outcome(200, SeriesB) }

HiloOutcomes ==
  { Fail(c) : c \in Statuses \ {200} } \cup { Outcome(200, HiloBody) }

PredCall ==
  /\ ~pr.active \/ pr.st.done
  /\ pr' = [active |-> TRUE, st |-> PredStart, outs |-> <<>>]
  /\ hl' = HiloIdle
  /\ UNCHANGED <<now, tides_cache, tide_last, marine_cache, marine_last, rs,
                 nearby_last, th>>

PredAttempt ==
  /\ pr.active /\ ~pr.st.done
  /\ \E o \in RetryOutcomes :
       pr' = [pr EXCEPT !.st = PredStep(pr.st, o), !.outs = Append(pr.outs, o)]
  /\ UNCHANGED <<now, tides_cache, tide_last, marine_cache, marine_last, hl, rs,
                 nearby_last, th>>

HiloCall ==
  /\ pr.active /\ pr.st.done /\ ~pr.st.raised /\ ~hl.active
  /\ hl' = [active |-> TRUE, st |-> HiloStart, outs |-> <<>>]
  /\ UNCHANGED <<now, tides_cache, tide_last, marine_cache, marine_last, pr, rs,
                 nearby_last, th>>

HiloAttempt ==
  /\ hl.active /\ ~hl.st.done
  /\ \E o \in HiloOutcomes :
       hl' = [hl EXCEPT !.st = HiloStep(hl.st, o), !.outs = Append(hl.outs, o)]
  /\ UNCHANGED <<now, tides_cache, tide_last, marine_cache, marine_last, pr, rs,
                 nearby_last, th>>

NextRetry == PredCall \/ PredAttempt \/ HiloCall \/ HiloAttempt

SpecRetry == Init /\ [][NextRetry]_vars

\* ------------------------------------- the resolver, directory query by query
StationPool ==
  { sNewLondon, sBoston, sClosed, sFarBoth, sOneAxis, sPolar, sGulf, sWest,
    sNoId, sNullId, sNullStatus, sBadLat }

StationLists == UNION { [1..n -> StationPool] : n \in 0..MaxStations }

DirResponses == {DirErr} \cup { DirOk(l) : l \in StationLists }

QueryCoords ==
  { <<41, -71>>, <<29, -95>>, <<37, -122>>, <<80, 0>>, <<95, 0>>,
    <<30, -90>>, <<30, -105>>, <<40, -105>>, <<30, -125>>, <<29, -110>>,
    <<36, -95>>, <<51, -122>>,
    <<BadCoord, -71>>, <<41, BadCoord>> }

MaxKms == {0, 25000, 300000}

ResolverCall ==
  /\ ~rs.active \/ rs.done
  /\ \E c \in QueryCoords, m \in MaxKms :
       rs' = IF c[1] = BadCoord \/ c[2] = BadCoord
               THEN [ResIdle EXCEPT !.active = TRUE, !.lat = c[1], !.lon = c[2],
                                    !.max_km = m, !.done = TRUE]
               ELSE [ResIdle EXCEPT !.active = TRUE, !.lat = c[1], !.lon = c[2],
                                    !.max_km = m]
  /\ UNCHANGED <<now, tides_cache, tide_last, marine_cache, marine_last, pr, hl,
                 nearby_last, th>>

ResolverQuery ==
  /\ rs.active /\ ~rs.done /\ rs.i <= Len(Deltas)
  /\ \E resp \in DirResponses :
       LET r == SearchRadius(rs.lat, rs.lon, rs.max_km, resp)
           q == [rs EXCEPT !.queries = Append(rs.queries, Deltas[rs.i]),
                           !.kind = r.kind, !.cand = r.cand,
                           !.got = IF resp.err THEN "error"
                                   ELSE IF resp.stations = <<>> THEN "empty"
                                   ELSE "list"]
       IN rs' = IF r.kind = "raise"
                  THEN [q EXCEPT !.done = TRUE, !.raised = TRUE]
                ELSE IF r.kind = "return"
                  THEN [q EXCEPT !.done = TRUE, !.station = r.station]
                ELSE [q EXCEPT !.i = rs.i + 1, !.passed = rs.passed + 1]
  /\ UNCHANGED <<now, tides_cache, tide_last, marine_cache, marine_last, pr, hl,
                 nearby_last, th>>

ResolverFallback ==
  /\ rs.active /\ ~rs.done /\ rs.i > Len(Deltas)
  /\ rs' = [rs EXCEPT !.done = TRUE, !.kind = "fallback",
                      !.station = RegionalDefault(rs.lat, rs.lon)]
  /\ UNCHANGED <<now, tides_cache, tide_last, marine_cache, marine_last, pr, hl,
                 nearby_last, th>>

NextResolver == ResolverCall \/ ResolverQuery \/ ResolverFallback

SpecResolver == Init /\ [][NextResolver]_vars

\* ------------------------------ the candidate of one radius (lines 397-414)
\* The two loops applied to one station list of the directory.
CandidateEval ==
  /\ rs = ResIdle
  /\ \E c \in QueryCoords, l \in StationLists :
       /\ c[1] # BadCoord /\ c[2] # BadCoord
       /\ rs' = [ResIdle EXCEPT !.kind = "candidate", !.lat = c[1], !.lon = c[2],
                                !.stations = l,
                                !.cand = Candidate(l, c[1], c[2])]
  /\ UNCHANGED <<now, tides_cache, tide_last, marine_cache, marine_last, pr, hl,
                 nearby_last, th>>

NextCandidate == CandidateEval

SpecCandidate == Init /\ [][NextCandidate]_vars

\* ------------------------------------------------- GET /api/nearby_spots
OkUp == [kind |-> "ok",
         hourly |-> Hourly(<<3, 10>>, <<180, 270>>, <<1, 2>>, <<90>>, <<7, 8>>, <<14, 15>>)]
FailUp == [kind |-> "timeout", hourly |-> Hourly(<<>>, <<>>, <<>>, <<>>, <<>>, <<>>)]

\* the marine upstream answers in some cells and fails in the others
NearbyUps ==
  { [k \in NearbyCells |-> IF k \in ok THEN OkUp ELSE FailUp] :
      ok \in {NearbyCells, {}, {<<4100, -7100>>}} }

ApiNearbySpotsOf(stores, callers, args, ups) ==
  \E store \in stores, caller \in callers, a \in args, upOf \in ups :
    LET r == ApiNearbySpotsResult(marine_cache, now, a[1], a[2], a[3], store,
                                  caller, upOf)
    IN /\ marine_cache' = r.cache
       /\ nearby_last' = r.last
       /\ tide_last' = NoTideCall
       /\ marine_last' = NoMarineCall
       /\ UNCHANGED <<now, tides_cache, pr, hl, rs, th>>

\* one request, for each content of the Dive table
ApiNearbySpots ==
  /\ nearby_last = NoNearbyCall
  /\ ApiNearbySpotsOf(Stores, Callers, NearbyArgs, NearbyUps)

NextNearby == ApiNearbySpots

SpecNearby == Init /\ [][NextNearby]_vars

\* ------------------------------- requests with and without a coordinate
\* Tide queries and nearby-spots requests whose lat / lon is absent or not
\* a number, next to well-formed ones, on both caches under one clock.
InputQueries ==
  { TideQuery("", BadCoord, BadCoord, TRUE, NoDirs),
    TideQuery("", BadCoord, -71, TRUE, NoDirs),
    TideQuery("", 41, BadCoord, TRUE, NoDirs),
    TideQuery("8452660", BadCoord, BadCoord, TRUE, NoDirs),
    TideQuery("", 41, -71, TRUE, NoDirs) }

InputPreds ==
  { [i \in 1..6 |-> Outcome(200, SeriesA)], [i \in 1..6 |-> Fail(404)] }

InputHilos ==
  { [i \in 1..2 |-> IF i = 1 THEN Fail(503) ELSE Outcome(200, HiloBody)] }

InputStores == { Pick({2, 3, 5}) }

InputArgs ==
  { <<41000, -71000, 100000>>, <<BadCoord, -71000, 100000>>,
    <<41000, BadCoord, 100000>>, <<BadCoord, BadCoord, 100000>> }

ApiTidesIn == ApiTidesOf(InputQueries, InputPreds, InputHilos)

ApiNearbySpotsIn == ApiNearbySpotsOf(InputStores, {0, 1}, InputArgs, NearbyUps)

NextInput == Tick \/ ApiTidesIn \/ ApiNearbySpotsIn

SpecInput == Init /\ [][NextInput]_vars

\* ------------------------------------- concurrent requests on one cache key
\* Threads run _fetch_marine for one 0.01-degree cell, or api_tides for one
\* station, with no lock: each read of a cache, each upstream exchange and
\* each write of a cache is a step of its own, and the clock moves on in
\* between.  The two handlers share no state, so a behaviour interleaves
\* requests on one of the two caches.
ConcCoord == <<41504, -71326>>
ConcKey == MarineKey(ConcCoord[1], ConcCoord[2])
ConcStation == "8443970"

ConcUps ==
  { [kind |-> "ok", hourly |-> b] : b \in HourlyBodies }
  \cup { FailUp }

ConcPreds ==
  { [i \in 1..6 |-> Outcome(200, SeriesA)], [i \in 1..6 |-> Outcome(200, SeriesB)],
    [i \in 1..6 |-> Fail(404)] }

\* lines 131-133: key, now and the freshness test
MarineStart(w) ==
  /\ th[w].pc = "idle"
  /\ tides_cache = EmptyCache /\ \A v \in Workers : th[v].kind # "tide"
  /\ LET hit == /\ ConcKey \in DOMAIN marine_cache
                /\ MarineFresh(marine_cache[ConcKey], now)
     IN th' = [th EXCEPT ![w] = [ThreadIdle EXCEPT
                 !.kind = "marine", !.now = now,
                 !.pc = IF hit THEN "hit" ELSE "miss"]]
  /\ UNCHANGED <<now, tides_cache, tide_last, marine_cache, marine_last, pr, hl,
                 rs, nearby_last>>

\* line 134: return _marine_cache[key]["data"]
MarineReturn(w) ==
  /\ th[w].kind = "marine" /\ th[w].pc = "hit"
  /\ th' = [th EXCEPT ![w].pc = "done",
                      ![w].ret = [NoRet EXCEPT !.path = "hit", !.isNull = FALSE,
                                    !.value = marine_cache[ConcKey].data]]
  /\ UNCHANGED <<now, tides_cache, tide_last, marine_cache, marine_last, pr, hl,
                 rs, nearby_last>>

\* lines 148-164 and 167-168: the upstream exchange and the parsing
MarineFetch(w) ==
  /\ th[w].kind = "marine" /\ th[w].pc = "miss"
  /\ \E up \in ConcUps :
       IF up.kind = "ok"
         THEN /\ th' = [th EXCEPT ![w].pc = "got", ![w].called = TRUE,
                                  ![w].data = MarineData(up.hourly)]
              /\ marine_cache' = marine_cache
         ELSE LET e == MarineOnError(marine_cache, ConcKey, th[w].now)
              IN /\ th' = [th EXCEPT ![w].pc = "done", ![w].called = TRUE,
                             ![w].ret = [NoRet EXCEPT !.path = "failed",
                                           !.isNull = e.isNull, !.value = e.data]]
                 /\ marine_cache' = e.cache
  /\ UNCHANGED <<now, tides_cache, tide_last, marine_last, pr, hl, rs, nearby_last>>

\* lines 165-166: the entry is stored and the snapshot returned
MarineWrite(w) ==
  /\ th[w].kind = "marine" /\ th[w].pc = "got"
  /\ marine_cache' = MarineStore(marine_cache, ConcKey,
                                 [ts |-> th[w].now, data |-> th[w].data])
  /\ th' = [th EXCEPT ![w].pc = "done",
                      ![w].ret = [NoRet EXCEPT !.path = "live", !.isNull = FALSE,
                                    !.value = th[w].data]]
  /\ UNCHANGED <<now, tides_cache, tide_last, marine_last, pr, hl, rs, nearby_last>>

\* lines 564-570: now, the one read of the cache, the fresh response
TideStart(w) ==
  /\ th[w].pc = "idle"
  /\ marine_cache = EmptyMarine /\ \A v \in Workers : th[v].kind # "marine"
  /\ LET had == ConcStation \in DOMAIN tides_cache
         cached == IF had THEN tides_cache[ConcStation] ELSE NoEntry
         t == [ThreadIdle EXCEPT !.kind = "tide", !.now = now, !.had = had,
                                 !.cached = cached]
     IN th' = [th EXCEPT ![w] =
                 IF had /\ TideFresh(cached, now)
                   THEN [t EXCEPT !.pc = "done",
                           !.ret = [NoRet EXCEPT !.path = "fresh", !.isNull = FALSE,
                                      !.value = <<cached.series, cached.hilo>>,
                                      !.stale = cached.stale]]
                   ELSE [t EXCEPT !.pc = "miss"]]
  /\ UNCHANGED <<now, tides_cache, tide_last, marine_cache, marine_last, pr, hl,
                 rs, nearby_last>>

\* lines 574-575 and 580-585: the two fetches; when one raises, the entry
\* read at the start is served, or a 502
TideFetch(w) ==
  /\ th[w].kind = "tide" /\ th[w].pc = "miss"
  /\ \E predOuts \in ConcPreds, hiloOuts \in InputHilos :
       LET p == FetchPredictionsResilient(predOuts)
           h == IF p.raised THEN NoHilo ELSE FetchHiloResilient(hiloOuts)
       IN IF ~p.raised /\ ~h.raised
            THEN /\ th' = [th EXCEPT ![w].pc = "got", ![w].called = TRUE,
                                     ![w].data = <<p.val, h.val>>]
                 /\ tides_cache' = tides_cache
            ELSE /\ th' = [th EXCEPT ![w].pc = "done", ![w].called = TRUE,
                     ![w].ret = IF th[w].had
                       THEN [NoRet EXCEPT !.path = "stale", !.isNull = FALSE,
                               !.value = <<th[w].cached.series, th[w].cached.hilo>>,
                               !.stale = TRUE]
                       ELSE [NoRet EXCEPT !.path = "error"]]
                 /\ tides_cache' = TideOnError(tides_cache, ConcStation, th[w].now)
  /\ UNCHANGED <<now, tide_last, marine_cache, marine_last, pr, hl, rs, nearby_last>>

\* lines 576-579: the payload is stored and returned
TideWrite(w) ==
  /\ th[w].kind = "tide" /\ th[w].pc = "got"
  /\ tides_cache' = TideStore(tides_cache, ConcStation,
                              TidePayload(th[w].now, th[w].data[1], th[w].data[2]))
  /\ th' = [th EXCEPT ![w].pc = "done",
                      ![w].ret = [NoRet EXCEPT !.path = "live", !.isNull = FALSE,
                                    !.value = th[w].data]]
  /\ UNCHANGED <<now, tide_last, marine_cache, marine_last, pr, hl, rs, nearby_last>>

\* the response is sent; the thread takes the next request
ThreadEnd(w) ==
  /\ th[w].pc = "done"
  /\ th' = [th EXCEPT ![w] = ThreadIdle]
  /\ UNCHANGED <<now, tides_cache, tide_last, marine_cache, marine_last, pr, hl,
                 rs, nearby_last>>

NextConc ==
  \/ Tick
  \/ \E w \in Workers : MarineStart(w)
  \/ \E w \in Workers : MarineReturn(w)
  \/ \E w \in Workers : MarineFetch(w)
  \/ \E w \in Workers : MarineWrite(w)
  \/ \E w \in Workers : TideStart(w)
  \/ \E w \in Workers : TideFetch(w)
  \/ \E w \in Workers : TideWrite(w)
  \/ \E w \in Workers : ThreadEnd(w)

SpecConc == Init /\ [][NextConc]_vars

\* ======================================================== tide query claims
\* the request just handled was a tide query that reached the cache lookup
TideServed(l) == l.kind \in {"ok", "unavailable"}
\* its live fetch was attempted and failed
LiveFailed(l) == l.pred.raised \/ l.hl.raised

\* C1: a tide query for a station whose cache entry is expired and whose
\* live fetch fails answers 200 with exactly the cached series and hilo,
\* stale = true and point_count = the length of the cached series.
C1_StaleServing ==
  [][ LET l == tide_last' IN
      (/\ TideServed(l)
       /\ l.station \in DOMAIN tides_cache
       /\ now - tides_cache[l.station].ts >= TIDES_TTL
       /\ LiveFailed(l))
      => (/\ l.kind = "ok" /\ l.http = 200
          /\ l.stale = TRUE
          /\ l.series = tides_cache[l.station].series
          /\ l.hilo = tides_cache[l.station].hilo
          /\ l.point_count = Len(tides_cache[l.station].series)) ]_vars

\* C1 witness: an 11-minute-old entry (here 899 s) served after a
\* non-retryable HTTP error of the predictions fetch
C1_Witness ==
  /\ tide_last.path = "stale" /\ tide_last.stale
  /\ tide_last.pred.exc = "HTTPError"
  /\ tide_last.station \in DOMAIN tides_cache
  /\ now - tides_cache[tide_last.station].ts > TIDES_TTL
  /\ tide_last.point_count = 2

\* C2 (as stated): the query fails only when the cache has no entry for the
\* station and the predictions fetch produced no series; a returned series
\* or a cached entry always yields a response with a series.
C2_UnavailableOnlyWithoutData ==
  /\ tide_last.kind = "unavailable"
       => (tide_last.station \notin DOMAIN tides_cache /\ tide_last.pred.raised)
  /\ (TideServed(tide_last) /\ tide_last.pred.done /\ ~tide_last.pred.raised)
       => tide_last.kind = "ok"
  /\ (TideServed(tide_last) /\ tide_last.station \in DOMAIN tides_cache)
       => tide_last.kind = "ok"

\* C6 (as stated): the hilo fetch never raises and makes at most 2 calls, so
\* a query whose predictions fetch succeeded returns that series, not stale,
\* and caches it.
C6_HiloNeverPropagates ==
  /\ ~tide_last.hl.raised
  /\ tide_last.hl.calls <= 2
  /\ (TideServed(tide_last) /\ tide_last.pred.done /\ ~tide_last.pred.raised)
       => (/\ tide_last.path = "live"
           /\ tide_last.series = tide_last.pred.val
           /\ tide_last.stale = FALSE
           /\ tide_last.station \in DOMAIN tides_cache
           /\ tides_cache[tide_last.station].ts = now
           /\ tides_cache[tide_last.station].series = tide_last.pred.val)

\* =========================================================== cache claims
\* C3: a request for a key whose entry is younger than the TTL returns the
\* stored value, not stale, without a predictions, hilo or marine request
\* and without touching the cache, whatever the upstream would answer; an
\* entry aged TTL or more is not served as fresh (a live request is made);
\* the entry is the value stored, with its time, by a successful fetch.
C3_FreshCacheHit ==
  [][ LET l == tide_last'
          m == marine_last'
          k == MarineKey(m.lat, m.lon)
      IN /\ (TideServed(l) /\ l.station \in DOMAIN tides_cache)
              => IF now - tides_cache[l.station].ts < TIDES_TTL
                   THEN /\ l.kind = "ok" /\ l.stale = FALSE
                        /\ l.series = tides_cache[l.station].series
                        /\ l.hilo = tides_cache[l.station].hilo
                        /\ l.pred.calls = <<>> /\ l.hl.calls = 0
                        /\ tides_cache' = tides_cache
                   ELSE Len(l.pred.calls) >= 1
         /\ (TideServed(l) /\ l.path = "live")
              => tides_cache'[l.station] =
                   [ts |-> now, series |-> l.series, hilo |-> l.hilo,
                    stale |-> FALSE]
         /\ (m.kind = "call" /\ k \in DOMAIN marine_cache)
              => IF now - marine_cache[k].ts < MARINE_TTL
                   THEN /\ ~m.isNull /\ m.data = marine_cache[k].data
                        /\ ~m.called
                        /\ marine_cache' = marine_cache
                   ELSE m.called
         /\ (m.kind = "call" /\ m.called /\ ~m.isNull)
              => marine_cache'[k] = [ts |-> now, data |-> m.data] ]_vars

\* C3 witness: a tide entry served 599 s after its fetch while the marine
\* cache holds a snapshot
C3_Witness ==
  /\ tide_last.path = "fresh"
  /\ now - tides_cache[tide_last.station].ts = TIDES_TTL - 1
  /\ tide_last.point_count = 2
  /\ DOMAIN marine_cache # {}


\* ===================================================== retry policy claims
AllWindows == <<36, 36, 30, 30, 24, 24>>
Transient(o) == o.status \in {502, 503, 504, NetError}
\* the series a 200 answer yields once its unparseable points are dropped
ParsedSeries(body) ==
  IF body = SeriesA THEN <<P(1, 3)>> ELSE <<P(1, 4), P(3, 6)>>

\* C4: one predictions fetch issues at most 6 requests, with windows
\* 36,36,30,30,24,24 in that order; when every attempt fails with
\* 502/503/504 or a network error it issues exactly 6 and then fails; it
\* returns the series of the first successful attempt and issues no request
\* after it.
C4_RetryBound ==
  LET n == Len(pr.outs) IN
  pr.active =>
    /\ n <= 6
    /\ pr.st.calls = SubSeq(AllWindows, 1, n)
    /\ \A i \in 1..(n - 1) : pr.outs[i].status # 200
    /\ (pr.st.done /\ \A i \in 1..n : Transient(pr.outs[i]))
         => (n = 6 /\ pr.st.raised /\ pr.st.exc = "RuntimeError")
    /\ (n < 6 /\ \A i \in 1..n : Transient(pr.outs[i])) => ~pr.st.done
    /\ (n >= 1 /\ pr.outs[n].status = 200)
         => (/\ pr.st.done /\ ~pr.st.raised
             /\ pr.st.val = ParsedSeries(pr.outs[n].body))

\* C4 witness: six transient failures, then the failure of the fetch
C4_Witness ==
  /\ pr.active /\ pr.st.done /\ pr.st.raised /\ pr.st.exc = "RuntimeError"
  /\ pr.st.calls = AllWindows
  /\ pr.outs[1].status = 503 /\ pr.outs[6].status = NetError

\* C5: the first attempt answered by an HTTP error other than 502/503/504
\* ends the fetch with that failure at once, at whichever position: it is
\* the last request made.
C5_NonRetryableAbort ==
  LET n == Len(pr.outs) IN
  \A i \in 1..n :
    (pr.outs[i].status # 200 /\ ~Transient(pr.outs[i]))
      => (/\ i = n /\ Len(pr.st.calls) = i
          /\ pr.st.done /\ pr.st.raised
          /\ pr.st.exc = "HTTPError" /\ pr.st.code = pr.outs[i].status)

\* C5 witness: a 500 at the fifth request (first try of the 24 h window)
C5_Witness ==
  /\ Len(pr.outs) = 5 /\ pr.outs[5].status = 500
  /\ pr.st.done /\ pr.st.calls = <<36, 36, 30, 30, 24>>

\* ====================================================== marine fetch claims
\* C7: a marine fetch whose upstream request fails returns null and leaves
\* the cache as it was; an entry appears or changes only through a
\* successful answer, holds that answer's snapshot and is never null.
C7_MarineFailuresNotCached ==
  [][ LET m == marine_last' IN
      m.kind = "call" =>
        /\ (m.called /\ m.up \in MarineFailures)
             => (m.isNull /\ marine_cache' = marine_cache)
        /\ \A k \in DOMAIN marine_cache' :
             /\ marine_cache'[k].data # NoData
             /\ (k \notin DOMAIN marine_cache \/ marine_cache'[k] # marine_cache[k])
                  => (/\ m.up = "ok" /\ ~m.isNull
                      /\ k = MarineKey(m.lat, m.lon)
                      /\ marine_cache'[k] = [ts |-> now, data |-> m.data]) ]_vars

\* C7 witness: a parse error while the cache holds a snapshot of the cell
C7_Witness ==
  /\ marine_last.kind = "call" /\ marine_last.up = "parse_error"
  /\ marine_last.called /\ marine_last.isNull
  /\ MarineKey(marine_last.lat, marine_last.lon) \in DOMAIN marine_cache

\* C8: when the entry of the key is expired (age >= 15 min) and the refresh
\* fails the fetch returns null, never the expired snapshot; a snapshot is
\* returned from the cache only while its age is below the TTL.
C8_NoStaleMarine ==
  [][ LET m == marine_last'
          k == MarineKey(m.lat, m.lon)
      IN m.kind = "call" =>
        /\ (/\ k \in DOMAIN marine_cache
            /\ now - marine_cache[k].ts >= MARINE_TTL
            /\ m.up \in MarineFailures) => m.isNull
        /\ (~m.isNull /\ m.up \in MarineFailures)
             => (/\ k \in DOMAIN marine_cache
                 /\ now - marine_cache[k].ts < MARINE_TTL
                 /\ m.data = marine_cache[k].data)
        /\ ~m.called
             => (k \in DOMAIN marine_cache
                 /\ now - marine_cache[k].ts < MARINE_TTL) ]_vars

\* C8 witness: a failed refresh of a snapshot aged exactly 15 minutes
C8_Witness ==
  LET k == MarineKey(marine_last.lat, marine_last.lon) IN
  /\ marine_last.kind = "call" /\ marine_last.isNull /\ marine_last.called
  /\ k \in DOMAIN marine_cache
  /\ now - marine_cache[k].ts = MARINE_TTL

\* ========================================================= resolver claims
\* C9 (as stated): the resolver never fails: every call ends with a station
\* whose id is not null; with an invalid coordinate the id is "8452660" and
\* the directory is not queried.
C9_ResolverNeverFails ==
  (rs.active /\ rs.done) =>
    /\ ~rs.raised
    /\ rs.station.id \notin {MissingKey, NullVal}
    /\ (rs.lat = BadCoord \/ rs.lon = BadCoord)
         => (rs.station.id = "8452660" /\ rs.queries = <<>>)

\* C10: a station is returned as a search result only if its distance is
\* <= max_km and it is not more than 10 degrees away in latitude and in
\* longitude at once; the candidate of a radius is rejected exactly when
\* distance > max_km or (|dlat| > 10 and |dlon| > 10).
C10_AcceptanceGuard ==
  /\ (rs.done /\ ~rs.raised /\ rs.station.distance_km # NoKm)
       => (/\ rs.station.distance_km <= rs.max_km
           /\ ~(Abs(rs.station.lat - rs.lat) > 10 /\ Abs(rs.station.lon - rs.lon) > 10))
  /\ (rs.kind \in {"continue", "return"} /\ rs.cand.has)
       => (rs.kind = "continue"
             <=> (\/ rs.cand.best_d > rs.max_km
                  \/ (/\ Abs(rs.cand.best.lat - rs.lat) > 10
                      /\ Abs(rs.cand.best.lng - rs.lon) > 10)))

\* C10 witness: a station 12 degrees south and 9 degrees west, within
\* max_km, returned as the search result
C10_Witness ==
  /\ rs.done /\ rs.kind = "return"
  /\ Abs(rs.station.lat - rs.lat) > 10 /\ Abs(rs.station.lon - rs.lon) <= 10
  /\ rs.station.distance_km > 0 /\ rs.station.distance_km <= rs.max_km


\* C11 (as stated): within one radius, when the list has an active station
\* the candidate is the active station of minimum distance, also when an
\* inactive one is nearer; only when it has none is the candidate the
\* nearest station of any status.
C11_CandidateChoice ==
  LET l == rs.stations
      usable == { i \in 1..Len(l) : l[i].lat # BadCoord /\ l[i].lng # BadCoord }
      act == { i \in usable : l[i].status \in {"active", "Active"} }
      Dist(i) == TideHaversine(rs.lat, rs.lon, l[i].lat, l[i].lng)
      Nearest(S) ==
        /\ rs.cand.has /\ ~rs.cand.raised
        /\ \E i \in S : rs.cand.best = l[i] /\ rs.cand.best_d = Dist(i)
        /\ \A i \in S : rs.cand.best_d <= Dist(i)
  IN rs.kind = "candidate" =>
       /\ act # {} => Nearest(act)
       /\ (act = {} /\ usable # {}) => Nearest(usable)
       /\ usable = {} => ~rs.cand.has


\* C12: when every radius search was empty or rejected the station returned
\* is the one of the coordinate band: Newport (8452660) for lon in [-90,-60]
\* and lat in [25,50], Galveston (8771450) for lon in [-105,-90) and lat in
\* [25,35], San Francisco (9414290) for lon in [-125,-105) and lat in
\* [30,50], Newport elsewhere; no coordinate is in two bands and
\* distance_km is null.
C12_RegionalFallback ==
  LET east == rs.lon >= -90 /\ rs.lon <= -60 /\ rs.lat >= 25 /\ rs.lat <= 50
      gulf == rs.lon >= -105 /\ rs.lon < -90 /\ rs.lat >= 25 /\ rs.lat <= 35
      west == rs.lon >= -125 /\ rs.lon < -105 /\ rs.lat >= 30 /\ rs.lat <= 50
  IN rs.kind = "fallback" =>
       /\ rs.done /\ ~rs.raised /\ rs.passed = 3
       /\ rs.station.distance_km = NoKm
       /\ ~(east /\ gulf) /\ ~(east /\ west) /\ ~(gulf /\ west)
       /\ rs.station.id = (IF gulf THEN "8771450"
                           ELSE IF west THEN "9414290" ELSE "8452660")
       /\ rs.station.name = (IF gulf THEN "Galveston Pier 21, TX"
                             ELSE IF west THEN "San Francisco, CA"
                             ELSE "Newport, RI")

\* C12 witness: the western edge of the Gulf band falls back to Galveston
C12_Witness ==
  /\ rs.kind = "fallback" /\ rs.lat = 30 /\ rs.lon = -105
  /\ rs.station.id = "8771450" /\ rs.queries = <<5, 10, 25>>


\* C18: the directory is queried with half-widths 0.5, 1.0, 2.5 degrees in
\* that order, at most three times in one resolution; a directory error or
\* an empty list moves on to the next radius; a resolution that returned a
\* search result is over and issues no further query; the regional fallback
\* is used only after all three radii were passed over.
C18_ExpandingSearch ==
  [][ LET Radii == <<5, 10, 25>>
          asked == Len(rs'.queries) = Len(rs.queries) + 1
      IN /\ Len(rs'.queries) <= 3
         /\ rs'.queries = SubSeq(Radii, 1, Len(rs'.queries))
         /\ rs.done => rs'.queries = <<>>
         /\ asked =>
              /\ SubSeq(rs'.queries, 1, Len(rs.queries)) = rs.queries
              /\ rs.passed = Len(rs.queries)
              /\ rs'.got \in {"error", "empty"} =>
                   ~rs'.done /\ rs'.kind = "continue" /\ rs'.passed = rs.passed + 1
              /\ rs'.kind = "return" =>
                   rs'.done /\ rs'.got = "list" /\ rs'.passed = rs.passed
              /\ rs'.done \/ rs'.passed = rs.passed + 1
         /\ rs'.kind = "fallback" =>
              /\ rs.queries = Radii /\ rs'.queries = Radii
              /\ rs.passed = 3 /\ ~rs.done /\ rs'.done
    ]_vars

\* C18 witness: the first radius gave nothing, the second one an accepted
\* station; the search is over after two queries
C18_Witness ==
  /\ rs.done /\ rs.kind = "return" /\ rs.queries = <<5, 10>>
  /\ rs.passed = 1 /\ rs.station.distance_km # NoKm


\* C19: a tide query whose live fetch fails (stale or error response) leaves
\* the whole tide cache as it was, so the entry of its station is absent or
\* still expired and a query for it that follows does not take the fresh
\* path; an entry changes only in a query whose predictions and hilo
\* fetches both returned, and only the entry of that query's station.
C19_FailedRefreshFrame ==
  [][ LET l == tide_last' IN
      /\ (TideServed(l) /\ LiveFailed(l)) =>
           /\ l.path \in {"stale", "error"}
           /\ tides_cache' = tides_cache
           /\ \/ l.station \notin DOMAIN tides_cache'
              \/ now' - tides_cache'[l.station].ts >= TIDES_TTL
      /\ tides_cache' # tides_cache =>
           /\ TideServed(l) /\ l.pred.done /\ ~l.pred.raised
           /\ l.hl.done /\ ~l.hl.raised
           /\ \A s \in DOMAIN tides_cache :
                s # l.station =>
                  s \in DOMAIN tides_cache' /\ tides_cache'[s] = tides_cache[s]
           /\ DOMAIN tides_cache' = DOMAIN tides_cache \cup {l.station}
      /\ (/\ tide_last.path \in {"stale", "error"}
          /\ TideServed(l) /\ l.station = tide_last.station) =>
           l.path # "fresh" /\ l.pred.calls # <<>>
    ]_vars

\* C19 witness: after a failed refresh at 900 s the entry still is the one
\* written at 0 s, next to an entry of another station
C19_Witness ==
  /\ tide_last.path = "stale" /\ LiveFailed(tide_last)
  /\ now = 900 /\ tides_cache[tide_last.station].ts = 0
  /\ Cardinality(DOMAIN tides_cache) >= 2

\* C20: every tide cache entry has stale = false; a response has
\* stale = true only when the live fetch of its own request failed and the
\* entry it serves was expired; a request whose live fetch succeeds, also
\* right after a stale response for the station, answers stale = false and
\* replaces the entry with its own payload.
C20_StaleNeverStored ==
  [][ LET l == tide_last' IN
      /\ \A s \in DOMAIN tides_cache' : tides_cache'[s].stale = FALSE
      /\ l.stale =>
           /\ TideServed(l) /\ LiveFailed(l)
           /\ l.station \in DOMAIN tides_cache
           /\ now - tides_cache[l.station].ts >= TIDES_TTL
      /\ (/\ TideServed(l) /\ l.pred.done /\ ~l.pred.raised
          /\ l.hl.done /\ ~l.hl.raised) =>
           /\ l.stale = FALSE /\ l.kind = "ok"
           /\ l.station \in DOMAIN tides_cache'
           /\ tides_cache'[l.station] =
                [ts |-> now, series |-> l.pred.val, hilo |-> l.hl.val,
                 stale |-> FALSE]
    ]_vars

\* C20 witness: a stale response (the hilo fetch raised) served from an
\* entry that is itself stored with stale = false
C20_Witness ==
  /\ tide_last.path = "stale" /\ tide_last.stale /\ tide_last.hl.raised
  /\ tides_cache[tide_last.station].stale = FALSE
  /\ now - tides_cache[tide_last.station].ts >= TIDES_TTL


\* ==================================================== nearby-spots claims
\* C13: the output holds min(8, n) rows, n being the number of distinct
\* candidates (public dives and the caller's own) within radius_km; the rows
\* are in non-decreasing order of distance_km, each is an in-radius
\* candidate with its rounded distance, and no in-radius candidate left out
\* has a smaller distance_km than a row.
C13_CapAndOrder ==
  LET l == nearby_last
      st == l.store
      out == l.rows
      Dist(i) == HaversineKm(l.lat, l.lon, st[i].lat, st[i].lon)
      inR == { i \in 1..Len(st) :
                 /\ st[i].is_public \/ (l.caller # 0 /\ st[i].user_id = l.caller)
                 /\ Dist(i) <= l.radius_km }
      outIds == { out[j].id : j \in 1..Len(out) }
  IN l.kind = "ok" =>
       /\ Len(out) = IF Cardinality(inR) < 8 THEN Cardinality(inR) ELSE 8
       /\ \A j \in 1..(Len(out) - 1) : out[j].distance_km <= out[j + 1].distance_km
       /\ \A j \in 1..Len(out) :
            \E i \in inR : st[i].id = out[j].id /\ out[j].distance_km = Round1(Dist(i))
       /\ \A i \in inR :
            st[i].id \notin outIds =>
              \A j \in 1..Len(out) : out[j].distance_km <= Round1(Dist(i))

\* C13 witness: eleven candidates within 100 km, eight rows, the table not
\* in order of distance
C13_Witness ==
  /\ nearby_last.kind = "ok" /\ nearby_last.caller = 1
  /\ nearby_last.radius_km = 100000 /\ Len(nearby_last.store) >= 12
  /\ Len(nearby_last.rows) = 8
  /\ nearby_last.rows[1].id = 2 /\ nearby_last.rows[8].id # 8

\* C14: no dive id is in two rows; a dive that is public and owned by the
\* caller, within the radius and with at most 8 in-radius candidates not
\* farther than itself, is in exactly one row.
C14_NoDuplicates ==
  LET l == nearby_last
      st == l.store
      out == l.rows
      Dist(i) == HaversineKm(l.lat, l.lon, st[i].lat, st[i].lon)
      inR == { i \in 1..Len(st) :
                 /\ st[i].is_public \/ (l.caller # 0 /\ st[i].user_id = l.caller)
                 /\ Dist(i) <= l.radius_km }
  IN l.kind = "ok" =>
       /\ \A j, k \in 1..Len(out) : out[j].id = out[k].id => j = k
       /\ \A i \in inR :
            (/\ st[i].is_public /\ l.caller # 0 /\ st[i].user_id = l.caller
             /\ Cardinality({ k \in inR : Round1(Dist(k)) <= Round1(Dist(i)) }) <= 8)
            => Cardinality({ j \in 1..Len(out) : out[j].id = st[i].id }) = 1

\* C14 witness: user 1 gets their public dive 5 and their private dive 3
C14_Witness ==
  /\ nearby_last.kind = "ok" /\ nearby_last.caller = 1
  /\ \E j \in 1..Len(nearby_last.rows) : nearby_last.rows[j].id = 5
  /\ \E j \in 1..Len(nearby_last.rows) : nearby_last.rows[j].id = 3

\* C15: every row is a dive of the table that is public or owned by the
\* authenticated caller, shown with its own is_public; the anonymous caller
\* gets public dives only.
C15_Visibility ==
  LET l == nearby_last
      st == l.store
      out == l.rows
  IN l.kind = "ok" =>
       /\ \A j \in 1..Len(out) :
            \E i \in 1..Len(st) :
              /\ st[i].id = out[j].id /\ out[j].is_public = st[i].is_public
              /\ st[i].is_public \/ (l.caller # 0 /\ st[i].user_id = l.caller)
       /\ l.caller = 0 => \A j \in 1..Len(out) : out[j].is_public

\* C15 witness: the table holds the private dive 6 of user 2 within the
\* radius; user 1 gets their own private dive 3 and not dive 6
C15_Witness ==
  /\ nearby_last.kind = "ok" /\ nearby_last.caller = 1
  /\ nearby_last.lat = 41000 /\ nearby_last.radius_km = 300
  /\ \E i \in 1..Len(nearby_last.store) : nearby_last.store[i].id = 6
  /\ \E j \in 1..Len(nearby_last.rows) : ~nearby_last.rows[j].is_public
  /\ \A j \in 1..Len(nearby_last.rows) : nearby_last.rows[j].id # 6


\* C16 (as stated): a nearby-spots request, or a tide query without a
\* station, whose lat or lon is missing or not a number is answered with a
\* 400, makes no marine, directory, predictions or hilo request and changes
\* neither cache.
C16_InputErrors ==
  [][ LET n == nearby_last'
          t == tide_last'
      IN /\ (n.kind # "none" /\ (n.lat = BadCoord \/ n.lon = BadCoord)) =>
              /\ n.http = 400 /\ n.calls = 0
              /\ marine_cache' = marine_cache /\ tides_cache' = tides_cache
         /\ (t.kind # "none" /\ t.arg = "" /\ (t.lat = BadCoord \/ t.lon = BadCoord)) =>
              /\ t.http = 400
              /\ t.dir_queries = 0 /\ t.pred.calls = <<>> /\ t.hl.calls = 0
              /\ marine_cache' = marine_cache /\ tides_cache' = tides_cache
    ]_vars

\* C16 (amended): the nearby-spots request is answered as stated.  The tide
\* query is not an error: it makes no directory request, takes the default
\* station Newport RI (8452660) and is served like any tide query, from a
\* fresh entry without a request, else by a live fetch that reaches the
\* predictions service and may write the Newport entry; it answers 200 or
\* 502 and leaves the marine cache alone.
C16_InputErrorsAmended ==
  [][ LET n == nearby_last'
          t == tide_last'
          fresh == /\ "8452660" \in DOMAIN tides_cache
                   /\ now - tides_cache["8452660"].ts < TIDES_TTL
      IN /\ (n.kind # "none" /\ (n.lat = BadCoord \/ n.lon = BadCoord)) =>
              /\ n.http = 400 /\ n.calls = 0
              /\ marine_cache' = marine_cache /\ tides_cache' = tides_cache
         /\ (t.kind # "none" /\ t.arg = "" /\ (t.lat = BadCoord \/ t.lon = BadCoord)) =>
              /\ t.dir_queries = 0 /\ t.station = "8452660"
              /\ t.http \in {200, 502}
              /\ marine_cache' = marine_cache
              /\ fresh => (/\ t.path = "fresh" /\ t.pred.calls = <<>>
                           /\ t.hl.calls = 0 /\ tides_cache' = tides_cache)
              /\ ~fresh => (/\ t.path # "fresh" /\ t.pred.calls # <<>>
                            /\ (t.path = "live") = ("8452660" \in DOMAIN tides_cache'
                                                    /\ tides_cache'["8452660"].ts = now))
              /\ \A s \in DOMAIN tides_cache' \ {"8452660"} :
                   s \in DOMAIN tides_cache /\ tides_cache'[s] = tides_cache[s]
    ]_vars

\* C16 witness: a tide query with no station and no lat, answered live for
\* Newport and cached, while the marine cache holds a snapshot
C16_Witness ==
  /\ tide_last.arg = "" /\ tide_last.lat = BadCoord
  /\ tide_last.path = "live" /\ tide_last.http = 200
  /\ tide_last.station = "8452660" /\ tide_last.dir_queries = 0
  /\ tides_cache["8452660"].ts = now /\ now > 0
  /\ marine_cache # EmptyMarine


C21_TimestampsNeverGoBack ==
  [][ /\ now' >= now
      /\ \A k \in DOMAIN marine_cache :
           /\ k \in DOMAIN marine_cache'
           /\ marine_cache'[k].ts >= marine_cache[k].ts
      /\ \A s \in DOMAIN tides_cache :
           /\ s \in DOMAIN tides_cache'
           /\ tides_cache'[s].ts >= tides_cache[s].ts
    ]_vars

====
